---- MODULE Spec2Model ----
(***************************************************************************)
(* Model of venta.py: a Tk window with one button whose command is         *)
(* al_hacer_clic, driven by ventana.mainloop().                            *)
(*                                                                         *)
(* The script is a straight line of five statements (lines 4, 5, 12, 13,   *)
(* 16); pc is the statement about to run.  The user's input events (clicks *)
(* on the button, the window manager's close request) arrive in a queue    *)
(* that mainloop() drains one event at a time; a click runs the button's   *)
(* command through the toolkit's callback wrapper, a close request         *)
(* destroys the window and makes mainloop() return.                        *)
(***************************************************************************)
EXTENDS Integers, Sequences, FiniteSets

\* Largest number of input events the user produces in one run.
MaxEventos == 4

VARIABLES
    pc,          \* statement of the script about to run
    ventana,     \* lifecycle state of the window: "none", "open", "closed"
    titulo,      \* title of the window
    widgets,     \* the live widgets: [nombre, clase, text, command, packed]
    tkCalls,     \* number of times tk.Tk() has been called
    eventos,     \* history: every input event [tipo, widget], in order
    cola,        \* ids (indices into eventos) of the events not yet dispatched
    pila,        \* invocations in progress: [evento, paso, command, resultado]
    iniciados,   \* history: event ids whose command invocation has begun
    terminados,  \* history: event ids whose command invocation has returned
    stdout,      \* lines written to standard output
    stderr,      \* lines written to standard error
    exitCode     \* exit code of the ended process; -1 while it runs

vars == <<pc, ventana, titulo, widgets, tkCalls, eventos, cola, pila,
          iniciados, terminados, stdout, stderr, exitCode>>

----------------------------------------------------------------------------
\* Literals of the source.

TituloVentana == "Ejemplo de programación basada en eventos"

TextoBoton == "Haz clic aquí"

Mensaje == "¡Botón clickeado!"

\* Title a Tk root window carries until title() is called.
TituloPorDefecto == "tk"

\* The root window, as a widget.
WidgetVentana ==
    [nombre |-> ".", clase |-> "Tk", text |-> "", command |-> "",
     packed |-> FALSE]

\* The button of line 12, as created: not yet packed.
\* Variant: the button created without command=.
WidgetBotonSinComando ==
    [nombre |-> ".!button", clase |-> "Button", text |-> TextoBoton,
     command |-> "", packed |-> FALSE]

WidgetBoton ==
    [nombre |-> ".!button", clase |-> "Button", text |-> TextoBoton,
     command |-> "al_hacer_clic", packed |-> FALSE]

Range(s) == {s[i] : i \in 1..Len(s)}

Ventanas == {w \in widgets : w.clase = "Tk"}

Botones == {w \in widgets : w.clase = "Button"}

\* The bindings of a command to a widget.
Bindings == {w \in widgets : w.command # ""}

----------------------------------------------------------------------------
\* The handler: def al_hacer_clic(): print(Mensaje).
\* Given the output so far, the output after the body and how the body ends.

\* Variant: the handler prints its line twice.
al_hacer_clic_doble(salida) ==
    [salida |-> Append(Append(salida, Mensaje), Mensaje), resultado |-> "ok"]

\* Variant: the handler raises before printing.
al_hacer_clic_falla(salida) ==
    [salida |-> salida, resultado |-> "error"]

al_hacer_clic(salida) ==
    [salida |-> Append(salida, Mensaje), resultado |-> "ok"]

\* The callable a command name stands for.
Llamar(command, salida) ==
    IF command = "al_hacer_clic" THEN al_hacer_clic(salida)
    ELSE [salida |-> salida, resultado |-> "ok"]

----------------------------------------------------------------------------
Init ==
    /\ pc = "Tk"
    /\ ventana = "none"
    /\ titulo = ""
    /\ widgets = {}
    /\ tkCalls = 0
    /\ eventos = <<>>
    /\ cola = <<>>
    /\ pila = <<>>
    /\ iniciados = <<>>
    /\ terminados = <<>>
    /\ stdout = <<>>
    /\ stderr = <<>>
    /\ exitCode = -1

----------------------------------------------------------------------------
\* The script, statement by statement.

\* Line 4, display reachable: ventana = tk.Tk()
CrearVentana ==
    /\ pc = "Tk"
    /\ tkCalls' = tkCalls + 1
    /\ ventana' = "open"
    /\ widgets' = widgets \cup {WidgetVentana}
    /\ titulo' = TituloPorDefecto
    /\ pc' = "title"
    /\ UNCHANGED <<eventos, cola, pila, iniciados, terminados,
                   stdout, stderr, exitCode>>

\* Line 4, no display: tk.Tk() raises TclError, nothing catches it, the
\* interpreter prints the traceback and exits with code 1.
\* Variant: the failure is swallowed and tk.Tk() tried again.
FalloDisplayReintenta ==
    /\ pc = "Tk"
    /\ tkCalls < 2
    /\ tkCalls' = tkCalls + 1
    /\ stderr' = Append(stderr, "TclError")
    /\ UNCHANGED <<pc, ventana, titulo, widgets, eventos, cola, pila,
                   iniciados, terminados, stdout, exitCode>>

FalloDisplay ==
    /\ pc = "Tk"
    /\ tkCalls' = tkCalls + 1
    /\ stderr' = Append(stderr, "TclError")
    /\ exitCode' = 1
    /\ pc' = "done"
    /\ UNCHANGED <<ventana, titulo, widgets, eventos, cola, pila, iniciados,
                   terminados, stdout>>

\* Line 5: ventana.title(TituloVentana)
\* Variant: line 5 left out.
PonerTituloOmitido ==
    /\ pc = "title"
    /\ pc' = "Button"
    /\ UNCHANGED <<ventana, titulo, widgets, tkCalls, eventos, cola, pila,
                   iniciados, terminados, stdout, stderr, exitCode>>

PonerTitulo ==
    /\ pc = "title"
    /\ titulo' = TituloVentana
    /\ pc' = "Button"
    /\ UNCHANGED <<ventana, widgets, tkCalls, eventos, cola, pila, iniciados,
                   terminados, stdout, stderr, exitCode>>

\* Line 12: boton = tk.Button(ventana, text=TextoBoton, command=al_hacer_clic)
\* Variant: line 12 without command=al_hacer_clic.
CrearBotonSinComando ==
    /\ pc = "Button"
    /\ widgets' = widgets \cup {WidgetBotonSinComando}
    /\ pc' = "pack"
    /\ UNCHANGED <<ventana, titulo, tkCalls, eventos, cola, pila, iniciados,
                   terminados, stdout, stderr, exitCode>>

CrearBoton ==
    /\ pc = "Button"
    /\ widgets' = widgets \cup {WidgetBoton}
    /\ pc' = "pack"
    /\ UNCHANGED <<ventana, titulo, tkCalls, eventos, cola, pila, iniciados,
                   terminados, stdout, stderr, exitCode>>

\* Line 13: boton.pack()
Empaquetar ==
    /\ pc = "pack"
    /\ widgets' = {IF w.nombre = WidgetBoton.nombre
                   THEN [w EXCEPT !.packed = TRUE] ELSE w : w \in widgets}
    /\ pc' = "mainloop"
    /\ UNCHANGED <<ventana, titulo, tkCalls, eventos, cola, pila, iniciados,
                   terminados, stdout, stderr, exitCode>>

----------------------------------------------------------------------------
\* The user, while the window is on screen (it is shown by the event loop).

Emitir(tipo, nombre) ==
    /\ pc = "mainloop"
    /\ ventana = "open"
    /\ Len(eventos) < MaxEventos
    /\ eventos' = Append(eventos, [tipo |-> tipo, widget |-> nombre])
    /\ cola' = Append(cola, Len(eventos) + 1)
    /\ UNCHANGED <<pc, ventana, titulo, widgets, tkCalls, pila, iniciados,
                   terminados, stdout, stderr, exitCode>>

\* The user clicks a button that is on screen.
UsuarioClic ==
    \E b \in Botones :
        /\ b.packed
        /\ Emitir("click", b.nombre)

\* The user asks the window manager to close the window.
UsuarioCierra == Emitir("close", WidgetVentana.nombre)

----------------------------------------------------------------------------
\* Line 16: ventana.mainloop(). One event is taken and dispatched at a time,
\* and only when no command invocation is in progress.

\* Position in the queue of the event the loop takes next: the oldest.
\* Variant: the loop takes the newest event.
SiguienteUltimo(q) == Len(q)

Siguiente(q) == 1

Quitar(q, k) == [i \in 1..(Len(q) - 1) |-> IF i < k THEN q[i] ELSE q[i + 1]]

\* Whether the loop may take an event while `p` invocations are in progress.
\* Variant: the loop dispatches while a command is running.
LoopLibreSiempre(p) == TRUE

LoopLibre(p) == p = <<>>

\* A click on a button: the button's command, if it has one, is invoked.
DespacharClic ==
    /\ pc = "mainloop"
    /\ LoopLibre(pila)
    /\ cola # <<>>
    /\ LET k == Siguiente(cola)
           e == cola[k]
           destino == {w \in widgets : w.nombre = eventos[e].widget
                                       /\ w.command # ""}
       IN /\ eventos[e].tipo = "click"
          /\ cola' = Quitar(cola, k)
          /\ IF destino # {}
             THEN /\ pila' = Append(pila,
                        [evento |-> e, paso |-> "cuerpo",
                         command |-> (CHOOSE w \in destino : TRUE).command,
                         resultado |-> "ok"])
                  /\ iniciados' = Append(iniciados, e)
             ELSE UNCHANGED <<pila, iniciados>>
    /\ UNCHANGED <<pc, ventana, titulo, widgets, tkCalls, eventos, terminados,
                   stdout, stderr, exitCode>>

\* The body of the invoked command runs (lines 8-9).
\* Variant: the handler also destroys the window.
EjecutarCuerpoDestruye ==
    /\ pila # <<>>
    /\ pila[Len(pila)].paso = "cuerpo"
    /\ LET r == Llamar(pila[Len(pila)].command, stdout)
       IN /\ stdout' = r.salida
          /\ pila' = [pila EXCEPT ![Len(pila)].paso = "retorno",
                                  ![Len(pila)].resultado = r.resultado]
    /\ ventana' = "closed"
    /\ widgets' = {}
    /\ UNCHANGED <<pc, titulo, tkCalls, eventos, cola,
                   iniciados, terminados, stderr, exitCode>>

EjecutarCuerpo ==
    /\ pila # <<>>
    /\ pila[Len(pila)].paso = "cuerpo"
    /\ LET r == Llamar(pila[Len(pila)].command, stdout)
       IN /\ stdout' = r.salida
          /\ pila' = [pila EXCEPT ![Len(pila)].paso = "retorno",
                                  ![Len(pila)].resultado = r.resultado]
    /\ UNCHANGED <<pc, ventana, titulo, widgets, tkCalls, eventos, cola,
                   iniciados, terminados, stderr, exitCode>>

\* The invocation returns to the loop through the toolkit's callback wrapper:
\* an exception raised by the command is reported on stderr and swallowed.
\* Variant: the loop ends when a command returns.
RetornarComandoSale ==
    /\ pila # <<>>
    /\ pila[Len(pila)].paso = "retorno"
    /\ terminados' = Append(terminados, pila[Len(pila)].evento)
    /\ pila' = SubSeq(pila, 1, Len(pila) - 1)
    /\ pc' = "eof"
    /\ UNCHANGED <<ventana, titulo, widgets, tkCalls, eventos, cola,
                   iniciados, stdout, stderr, exitCode>>

RetornarComando ==
    /\ pila # <<>>
    /\ pila[Len(pila)].paso = "retorno"
    /\ stderr' = IF pila[Len(pila)].resultado = "error"
                 THEN Append(stderr, "Exception in Tkinter callback")
                 ELSE stderr
    /\ terminados' = Append(terminados, pila[Len(pila)].evento)
    /\ pila' = SubSeq(pila, 1, Len(pila) - 1)
    /\ UNCHANGED <<pc, ventana, titulo, widgets, tkCalls, eventos, cola,
                   iniciados, stdout, exitCode>>

\* What a close request does to the window.
\* Variant: the close request is ignored.
CerrarIgnorado(v) == v

Cerrar(v) == "closed"

\* A close request: the window and its children are destroyed, and the loop,
\* left without a window, returns.
DespacharCierre ==
    /\ pc = "mainloop"
    /\ LoopLibre(pila)
    /\ cola # <<>>
    /\ LET k == Siguiente(cola)
           e == cola[k]
       IN /\ eventos[e].tipo = "close"
          /\ cola' = Quitar(cola, k)
    /\ ventana' = Cerrar(ventana)
    /\ IF ventana' = "closed"
       THEN /\ widgets' = {}
            /\ pc' = "eof"
       ELSE UNCHANGED <<widgets, pc>>
    /\ UNCHANGED <<titulo, tkCalls, eventos, pila, iniciados, terminados,
                   stdout, stderr, exitCode>>

\* End of the script after mainloop() has returned: the process exits with 0.
FinScript ==
    /\ pc = "eof"
    /\ exitCode' = 0
    /\ pc' = "done"
    /\ UNCHANGED <<ventana, titulo, widgets, tkCalls, eventos, cola, pila,
                   iniciados, terminados, stdout, stderr>>

----------------------------------------------------------------------------
Next ==
    \/ CrearVentana
    \/ FalloDisplay
    \/ PonerTitulo
    \/ CrearBoton
    \/ Empaquetar
    \/ UsuarioClic
    \/ UsuarioCierra
    \/ DespacharClic
    \/ EjecutarCuerpo
    \/ RetornarComando
    \/ DespacharCierre
    \/ FinScript

Spec == Init /\ [][Next]_vars

\* The steps of the program, as opposed to the user's.
Programa ==
    \/ CrearVentana
    \/ PonerTitulo
    \/ CrearBoton
    \/ Empaquetar
    \/ DespacharClic
    \/ EjecutarCuerpo
    \/ RetornarComando
    \/ DespacharCierre
    \/ FinScript

\* The interpreter and mainloop() run whenever they can; the user is under
\* no obligation to act.
FairSpec == Spec /\ WF_vars(Programa)

\* The values the variables take.
TypeOK ==
    /\ pc \in {"Tk", "title", "Button", "pack", "mainloop", "eof", "done"}
    /\ ventana \in {"none", "open", "closed"}
    /\ exitCode \in {-1, 0, 1}
    /\ Len(eventos) <= MaxEventos

----------------------------------------------------------------------------
\* Vocabulary of the properties.

\* Events the loop has taken out of the queue.
Despachados == (1..Len(eventos)) \ Range(cola)

\* Clicks the loop has delivered.
ClicsEntregados == {i \in Despachados : eventos[i].tipo = "click"}

\* Invocations in progress whose body has not run yet.
EnCuerpo == Cardinality({i \in 1..Len(pila) : pila[i].paso = "cuerpo"})

\* This step takes a close request out of the queue.
CierreDespachado ==
    \E e \in Range(cola) : e \notin Range(cola') /\ eventos[e].tipo = "close"

\* tk.Tk() has failed for want of a display.
DisplayFallo == "TclError" \in Range(stderr)

\* mainloop() has returned.
LoopRetornado == pc \in {"eof", "done"} /\ ~DisplayFallo

----------------------------------------------------------------------------
\* What holds of the output in every state, and of every step.
C1_Estado ==
    /\ Len(iniciados) = Cardinality(ClicsEntregados)
    /\ \A i \in 1..Len(stdout) : stdout[i] = Mensaje
    /\ Len(stdout) = Len(iniciados) - EnCuerpo
    /\ pila = <<>> => Len(stdout) = Cardinality(ClicsEntregados)

C1_Paso ==
    \/ stdout' = stdout
    \/ /\ stdout' = Append(stdout, Mensaje)
       /\ pila # <<>>
       /\ pila[Len(pila)].paso = "cuerpo"
       /\ Len(pila') = Len(pila)
       /\ pila'[Len(pila)].paso = "retorno"

\* C1: for every number N of clicks delivered while the window is open, the
\* handler has been invoked exactly N times and standard output is exactly N
\* lines Mensaje (one fewer while the invocation in progress has not printed
\* yet); a step adds output only by running the handler's body, and then
\* exactly one line.
C1_SalidaExacta == []C1_Estado /\ [][C1_Paso]_vars

\* Three clicks delivered and handled: three lines.
C1_Witness ==
    /\ pila = <<>>
    /\ Cardinality(ClicsEntregados) = 3
    /\ stdout = <<Mensaje, Mensaje, Mensaje>>

----------------------------------------------------------------------------
\* What holds of the invocations in every state, and of every step.
C2_Estado ==
    /\ Len(pila) <= 1
    /\ \A i, j \in 1..Len(iniciados) : i < j => iniciados[i] < iniciados[j]
    /\ Range(iniciados) = ClicsEntregados
    /\ \A d \in Despachados : \A p \in Range(cola) : d < p
    /\ Len(terminados) <= Len(iniciados)
    /\ terminados = SubSeq(iniciados, 1, Len(terminados))
    /\ Len(iniciados) = Len(terminados) + Len(pila)

C2_Paso ==
    iniciados' # iniciados =>
        /\ pila = <<>>
        /\ terminados = iniciados
        /\ Len(stdout) = Len(iniciados)

\* C2: handler invocations begin and end in the order of the clicks, the
\* loop takes events oldest first, at most one invocation is in progress,
\* and an invocation begins only when every earlier one has written its line
\* and returned.
C2_Orden == []C2_Estado /\ [][C2_Paso]_vars

\* Two clicks handled, a third being handled while a fourth waits.
C2_Witness ==
    /\ Len(terminados) >= 2
    /\ Len(pila) = 1
    /\ \E p \in Range(cola) : eventos[p].tipo = "click"

----------------------------------------------------------------------------
\* A close request waits in the queue of the open window.
CierrePendiente ==
    /\ ventana = "open"
    /\ \E e \in Range(cola) : eventos[e].tipo = "close"

C3_Paso ==
    /\ CierreDespachado =>
          /\ ventana = "open"
          /\ ventana' = "closed"
          /\ pc = "mainloop"
          /\ pc' = "eof"
    /\ ventana = "closed" =>
          /\ stdout' = stdout
          /\ iniciados' = iniciados
          /\ pila' = pila

\* C3: dispatching a close request moves the window from open to closed and
\* makes mainloop() return; a close request issued while the window is open
\* is eventually dispatched; and once the window is closed no handler is
\* invoked and the output does not grow, whatever clicks are still queued.
C3_Cierre ==
    /\ [](ventana = "closed" => LoopRetornado)
    /\ [][C3_Paso]_vars
    /\ CierrePendiente ~> (ventana = "closed" /\ LoopRetornado)

\* The process has ended with a click still queued behind the close request.
C3_Witness ==
    /\ pc = "done"
    /\ ventana = "closed"
    /\ stdout # <<>>
    /\ \E e \in Range(cola) : eventos[e].tipo = "click"

----------------------------------------------------------------------------
\* What holds of the window's state in every state, and of every step.
C4_Estado ==
    /\ pc \in {"title", "Button", "pack", "mainloop"} => ventana = "open"
    /\ ventana = "none" => pc = "Tk" \/ DisplayFallo

C4_Paso ==
    /\ ventana = "closed" => ventana' = "closed"
    /\ ventana' # ventana =>
          \/ ventana = "none" /\ ventana' = "open" /\ pc = "Tk"
          \/ ventana = "open" /\ ventana' = "closed" /\ CierreDespachado
    /\ (pila' # pila \/ iniciados' # iniciados \/ stdout' # stdout)
          => ventana' = ventana

\* C4: the window is open from its creation on; its state changes only from
\* none to open (tk.Tk()) and from open to closed (a close request); closed
\* is final; no step of a handler invocation changes it.
C4_Ventana == []C4_Estado /\ [][C4_Paso]_vars

\* The window closed after a handler has run.
C4_Witness ==
    /\ ventana = "closed"
    /\ Len(terminados) >= 1
    /\ pc = "done"

----------------------------------------------------------------------------
\* No click was issued before the first close request.
SinActivacionAntesDeCerrar ==
    \A i \in 1..Len(eventos) :
        eventos[i].tipo = "click" =>
            \E j \in 1..(i - 1) : eventos[j].tipo = "close"

CerradaSinActivacion == ventana = "closed" /\ SinActivacionAntesDeCerrar

C5_Estado ==
    CerradaSinActivacion =>
        /\ stdout = <<>>
        /\ iniciados = <<>>
        /\ exitCode \in {-1, 0}
        /\ pc = "done" => exitCode = 0

\* C5: when the window is closed with no click before the close request,
\* nothing is written to standard output, no handler is invoked, and the
\* process ends with exit code 0.
C5_SinActivacion ==
    /\ []C5_Estado
    /\ CerradaSinActivacion ~> (pc = "done" /\ exitCode = 0 /\ stdout = <<>>)

\* The window closed at once, the process ended.
C5_Witness ==
    /\ pc = "done"
    /\ exitCode = 0
    /\ stdout = <<>>
    /\ Len(eventos) = 1
    /\ eventos[1].tipo = "close"
    /\ ventana = "closed"

----------------------------------------------------------------------------
\* One window, one button, one binding, of the button to al_hacer_clic.
UnoDeCadaUno ==
    /\ Cardinality(Ventanas) = 1
    /\ Cardinality(Botones) = 1
    /\ Cardinality(Bindings) = 1
    /\ \A b \in Bindings : b.clase = "Button" /\ b.command = "al_hacer_clic"

\* A step of an activation or of a handler invocation leaves the widgets.
C6_PasoActivacion ==
    (pila' # pila \/ iniciados' # iniciados \/ stdout' # stdout)
        => widgets' = widgets

\* C6 as stated: in every state from the start of the event loop until the
\* process ends there is exactly one window, one button and one binding of
\* the button to al_hacer_clic, and no activation or handler step creates,
\* destroys or rebinds a widget.
C6_Original ==
    /\ [](pc \in {"mainloop", "eof"} => UnoDeCadaUno)
    /\ [][C6_PasoActivacion]_vars

\* Only the dispatch of a close request changes the widgets while the loop
\* runs, and it destroys them all.
C6_Paso ==
    /\ C6_PasoActivacion
    /\ (pc = "mainloop" /\ ~CierreDespachado) => widgets' = widgets
    /\ CierreDespachado => widgets' = {}

\* C6, amended: in every state in which the event loop is running (from its
\* start until a close request is dispatched) there is exactly one window,
\* one button and one binding of the button to al_hacer_clic; no activation
\* or handler step creates, destroys or rebinds a widget; the dispatch of a
\* close request destroys the window with its button and binding, so that
\* none of them exists between the return of mainloop() and the end of the
\* process.
C6_UnoDeCadaUno ==
    /\ [](pc = "mainloop" => UnoDeCadaUno)
    /\ [](LoopRetornado => widgets = {})
    /\ [][C6_Paso]_vars

\* The loop is handling a click after having handled another.
C6_Witness ==
    /\ pc = "mainloop"
    /\ Len(terminados) >= 1
    /\ pila # <<>>
    /\ UnoDeCadaUno

----------------------------------------------------------------------------
\* What holds once tk.Tk() has failed.
C7_Estado ==
    /\ tkCalls <= 1
    /\ DisplayFallo =>
          /\ pc = "done"
          /\ exitCode \notin {-1, 0}
          /\ tkCalls = 1
          /\ ventana = "none"
          /\ widgets = {}
          /\ eventos = <<>>
          /\ iniciados = <<>>
          /\ stdout = <<>>

\* C7: when tk.Tk() fails the process has ended with a non-zero exit code,
\* tk.Tk() was called once, no widget exists, the event loop was never
\* entered, no handler ran, nothing was written to standard output, and no
\* further step is taken.
C7_FalloFatal == []C7_Estado /\ [][~DisplayFallo]_vars

\* tk.Tk() has failed.
C7_Witness == DisplayFallo /\ exitCode = 1 /\ pc = "done"

----------------------------------------------------------------------------
\* What holds of the outcomes in every state, and of every return.
C8_Estado ==
    /\ "Exception in Tkinter callback" \notin Range(stderr)
    /\ \A i \in 1..Len(pila) : pila[i].resultado # "error"
    /\ (/\ pc = "mainloop"
        /\ pila = <<>>
        /\ cola # <<>>
        /\ eventos[cola[1]].tipo = "click") => ENABLED DespacharClic

C8_Paso ==
    Len(pila') < Len(pila) =>
        /\ pc = "mainloop" /\ pc' = "mainloop"
        /\ ventana = "open" /\ ventana' = "open"
        /\ widgets' = widgets
        /\ cola' = cola

----------------------------------------------------------------------------
\* Event i is a click issued with no close request before it.
ClicSinCierreAntes(i) ==
    /\ i <= Len(eventos)
    /\ eventos[i].tipo = "click"
    /\ \A j \in 1..i : eventos[j].tipo # "close"

C9_Estado ==
    /\ LoopRetornado => ventana = "closed"
    /\ pc = "mainloop" => ventana = "open"
    /\ (pc = "mainloop" /\ Len(eventos) < MaxEventos) => ENABLED UsuarioClic

C9_Paso ==
    (pc = "mainloop" /\ pc' # "mainloop") => (CierreDespachado /\ pc' = "eof")

\* C9: mainloop() returns only by dispatching a close request: whenever it
\* has returned the window is closed, while it runs the window is open and
\* the user can click again, and every click issued with no close request
\* before it is eventually handled.
C9_SoloCierre ==
    /\ []C9_Estado
    /\ [][C9_Paso]_vars
    /\ \A i \in 1..MaxEventos :
          ClicSinCierreAntes(i) ~> (i \in Range(terminados))

\* The loop has returned, by a close request, after handling three clicks.
C9_Witness ==
    /\ pc = "eof"
    /\ ventana = "closed"
    /\ Len(terminados) >= 3

----------------------------------------------------------------------------
\* What holds of the start-up in every state, and of every step.
C10_Estado ==
    /\ pc \in {"Tk", "title", "Button", "pack"} =>
          /\ eventos = <<>>
          /\ pila = <<>>
          /\ iniciados = <<>>
          /\ stdout = <<>>
    /\ Botones # {} => titulo = TituloVentana /\ Ventanas # {}
    /\ pc = "mainloop" =>
          /\ titulo = TituloVentana
          /\ Botones = {[WidgetBoton EXCEPT !.packed = TRUE]}

C10_Paso ==
    pc' # pc =>
        /\ <<pc, pc'>> \in {<<"Tk", "title">>, <<"Tk", "done">>,
                           <<"title", "Button">>, <<"Button", "pack">>,
                           <<"pack", "mainloop">>, <<"mainloop", "eof">>,
                           <<"eof", "done">>}
        /\ pc' = "title" => Ventanas' = {WidgetVentana} /\ Botones' = {}
        /\ pc' = "Button" => titulo' = TituloVentana /\ Botones' = {}
        /\ pc' = "pack" => Botones' = {WidgetBoton}
        /\ pc' = "mainloop" => Botones' = {[WidgetBoton EXCEPT !.packed = TRUE]}

\* C10: the script runs window creation, title, button creation with its
\* command, packing and the event loop in that order; before the loop is
\* entered no event is issued, no handler is invoked and nothing is written;
\* while the loop runs the title is set and the button, packed, is bound to
\* al_hacer_clic.
C10_Arranque == []C10_Estado /\ [][C10_Paso]_vars

\* A click is being handled, the start-up complete.
C10_Witness ==
    /\ pc = "mainloop"
    /\ pila # <<>>
    /\ titulo = TituloVentana
    /\ \E b \in Bindings : b.packed

====
